---- MODULE Spec2Model ----
(***************************************************************************)
(* Model of wasi-requestor (src/main.rs): the Package builder that zips    *)
(* one Wasm module together with a generated manifest.json, and main,      *)
(* which builds the package inside a temporary workspace and hands its     *)
(* path to the Requestor.                                                  *)
(*                                                                         *)
(* Strings that the code takes apart (file names) are sequences of atoms:  *)
(* an atom is either the dot "." or a dot-free piece of text.  Byte        *)
(* buffers are sequences of tokens.  An Option<T> is a sequence of at most *)
(* one T.                                                                  *)
(***************************************************************************)
EXTENDS Naturals, Sequences, FiniteSets

\* ------------------------------------------------------------------ bounds
\* longest generated file name, in atoms
MaxNameLen == 5
\* add_module_from_path calls made on one builder
MaxCalls == 2
\* last instant of the wall clock, in seconds
MaxTime == 2

\* ------------------------------------------------------------ file names
Dot == "."
NameAtoms == {"task", "wasm", Dot}

\* the literal "manifest.json" of Package::write
ManifestName == <<"manifest", Dot, "json">>

\* the path component ".."
ParentDir == <<Dot, Dot>>

\* a file name that is not valid UTF-8
NonUtf8 == "\\xFF"
NonUtf8Name == <<NonUtf8, Dot, "wasm">>

SeqsUpTo(S, n) == UNION {[1..k -> S] : k \in 1..n}

\* last components a path can end in: every generated name but "."
Names ==
  (SeqsUpTo(NameAtoms, MaxNameLen) \ {<<Dot>>}) \cup {ManifestName, NonUtf8Name}

\* directories of the caller's file system; NoDir does not exist
NoDir == "nodir"
Dirs == {"a", "b", NoDir}

Paths == [dir : Dirs, last : Names]

Path(d, n) == [dir |-> d, last |-> n]

\* Path::file_name: None when the path terminates in "..", else the final
\* component
file_name(path) == IF path.last = ParentDir THEN <<>> ELSE <<path.last>>

\* OsStr::to_str: None unless the name is valid UTF-8
to_str(name) ==
  IF \E i \in 1..Len(name) : name[i] = NonUtf8 THEN <<>> ELSE <<name>>

\* fs::read: the bytes of the file, or an io::Error.  Files of the same
\* directory hold the same bytes, files of different directories differ.
fs_read(path) ==
  IF path.dir = NoDir
    THEN [ok |-> FALSE, bytes |-> <<>>]
    ELSE [ok |-> TRUE, bytes |-> <<"\\0asm", path.dir>>]

\* str::split('.'): the pieces between the dots, at least one piece
RECURSIVE split(_)
split(s) ==
  IF s = <<>> THEN << <<>> >>
  ELSE IF Head(s) = Dot THEN << <<>> >> \o split(Tail(s))
  ELSE LET rest == split(Tail(s))
       IN  << <<Head(s)>> \o Head(rest) >> \o Tail(rest)

\* ------------------------------------------------------------- the clock
\* DateTime::from_time: an MS-DOS timestamp keeps seconds in units of two
from_time(t) == (t \div 2) * 2

\* FileOptions::default().compression_method(Stored): the zip crate's
\* default options take the current time as last_modified_time
FileOptions(t) ==
  [compression_method |-> "Stored", last_modified_time |-> from_time(t)]

\* ------------------------------------------------------------ the archive
\* ZipWriter::start_file: closes the current entry and opens a new one under
\* `name`; the writer keeps no index of names and accepts any name
start_file(zip_writer, name, options) ==
  Append(zip_writer,
         [name |-> name,
          compression_method |-> options.compression_method,
          last_modified_time |-> options.last_modified_time,
          data |-> <<>>])

\* ZipWriter::write into the in-memory cursor: appends to the open entry
zip_write(zip_writer, bytes) ==
  LET n == Len(zip_writer)
  IN  [zip_writer EXCEPT ![n].data = @ \o bytes]

\* ZipWriter::finish().into_inner(): the local entries followed by the
\* central directory, one header per entry
finish(zip_writer) ==
  [local |-> zip_writer,
   central |-> [i \in 1..Len(zip_writer) |->
                  [name |-> zip_writer[i].name,
                   last_modified_time |-> zip_writer[i].last_modified_time,
                   size |-> Len(zip_writer[i].data)]]]

\* ----------------------------------------------------------- the manifest
Quote(s) == <<"\"">> \o s \o <<"\"">>

\* Manifest with the whole file name taken for the id
Manifest_whole_name(module_name) ==
  [id |-> <<"custom">>,
   name |-> <<"custom">>,
   entry_points |-> <<[id |-> module_name, wasm_path |-> module_name]>>,
   mount_points |-> <<[rw |-> <<"workdir">>]>>]

\* the serde_json::json! value of Package::write
Manifest(module_name) ==
  LET comps == split(module_name)
  IN  [id |-> <<"custom">>,
       name |-> <<"custom">>,
       entry_points |-> <<[id |-> comps[1], wasm_path |-> module_name]>>,
       mount_points |-> <<[rw |-> <<"workdir">>]>>]

\* serde_json::to_vec: the object's text, keys in serde_json's map order
to_vec(m) ==
  <<"{">> \o Quote(<<"entry-points">>) \o <<":", "[", "{">>
    \o Quote(<<"id">>) \o <<":">> \o Quote(m.entry_points[1].id) \o <<",">>
    \o Quote(<<"wasm-path">>) \o <<":">> \o Quote(m.entry_points[1].wasm_path)
    \o <<"}", "]", ",">>
    \o Quote(<<"id">>) \o <<":">> \o Quote(m.id) \o <<",">>
    \o Quote(<<"mount-points">>) \o <<":", "[", "{">>
    \o Quote(<<"rw">>) \o <<":">> \o Quote(m.mount_points[1].rw)
    \o <<"}", "]", ",">>
    \o Quote(<<"name">>) \o <<":">> \o Quote(m.name) \o <<"}">>

\* ------------------------------------------------------------ the Package
\* Package::new at instant t
Package_new(t) ==
  [zip_writer |-> <<>>, options |-> FileOptions(t), module_name |-> <<>>]

\* outcomes of a call
Ok == "Ok"
ErrIo == "Err(io)"
Panic == "panic"

\* Package::add_module_from_path: the outcome and the builder it leaves
add_module_from_path(self, path) ==
  LET fname == file_name(path)
      module_name == IF fname = <<>> THEN <<>> ELSE to_str(fname[1])
      contents == fs_read(path)
  IN  IF module_name = <<>>
        THEN [outcome |-> Panic, self |-> self]
      ELSE IF ~contents.ok
        THEN [outcome |-> ErrIo, self |-> self]
      ELSE [outcome |-> Ok,
            self |-> [self EXCEPT
              !.zip_writer =
                 zip_write(start_file(@, module_name[1], self.options),
                           contents.bytes),
              !.module_name = module_name]]

\* outcomes of fs::write: the file is written, cannot be created, or is
\* created and truncated but the writing fails
FsWriteOutcomes == {"written", "create_failed", "write_failed"}

\* fs::write(path, bytes) on the file `old` (an Option): outcome and file
fs_write(old, bytes, io) ==
  IF io = "written" THEN [outcome |-> Ok, file |-> <<bytes>>]
  ELSE IF io = "create_failed" THEN [outcome |-> ErrIo, file |-> old]
  ELSE [outcome |-> ErrIo, file |-> << [local |-> <<>>, central |-> <<>>] >>]

\* Package::write: the outcome, the value returned (Ok carries the unit
\* value (), the empty tuple) and the file left at the destination
Package_write(self, old, io) ==
  IF self.module_name = <<>>
    THEN [outcome |-> Panic, value |-> <<>>, file |-> old]
    ELSE LET manifest == Manifest(self.module_name[1])
             zw == zip_write(start_file(self.zip_writer, ManifestName, self.options),
                             to_vec(manifest))
             finalized == finish(zw)
             w == fs_write(old, finalized, io)
         IN  [outcome |-> w.outcome, value |-> <<>>, file |-> w.file]

\* --------------------------------------------------------------- the state
VARIABLES
  now,        \* the wall clock
  disk,       \* the files at the destination paths, each an Option
  status,     \* per run: "none", "building", "consumed" or "panicked"
  builder,    \* per run: the Package value, an Option
  calls,      \* per run: the add_module_from_path calls made, with outcomes
  sealed,     \* per run: the outcome and value of the write call, an Option
  pc,         \* main: the statement it is at
  args,       \* main: Args
  workspace,  \* main: whether the temporary directory exists
  package,    \* main: the local `package`, an Option
  steps,      \* main: the Package calls made so far, with outcomes
  requestor,  \* main: the archive path handed to the Requestor, an Option
  exit        \* main: its result, an Option

vars == <<now, disk, status, builder, calls, sealed,
          pc, args, workspace, package, steps, requestor, exit>>

apiVars == <<status, builder, calls, sealed>>
mainVars == <<pc, args, workspace, package, steps, requestor, exit>>

\* two independent uses of the builder, each sealing to a path of its own
Runs == {1, 2}
DestPath(r) == IF r = 1 THEN "first.zip" ELSE "second.zip"

\* workspace.path().join("package.zip")
package_path == "workspace/package.zip"

FilePaths == {DestPath(r) : r \in Runs} \cup {package_path}

\* the module files the builder is exercised on
SamplePaths ==
  {Path("a", <<"task", Dot, "wasm">>),
   Path("b", <<"task", Dot, "wasm">>),
   Path("a", <<"task">>),
   Path("a", ManifestName),
   Path(NoDir, <<"task", Dot, "wasm">>),
   Path("a", NonUtf8Name),
   Path("a", ParentDir)}

NoArgs == [module |-> Path("a", <<"task">>), args |-> 0]

InitDisk == [p \in FilePaths |-> <<>>]

InitApi ==
  /\ status = [r \in Runs |-> "none"]
  /\ builder = [r \in Runs |-> <<>>]
  /\ calls = [r \in Runs |-> <<>>]
  /\ sealed = [r \in Runs |-> <<>>]

InitMainIdle ==
  /\ pc = "idle"
  /\ args = NoArgs
  /\ workspace = FALSE
  /\ package = <<>>
  /\ steps = <<>>
  /\ requestor = <<>>
  /\ exit = <<>>

Init ==
  /\ now = 0
  /\ disk = InitDisk
  /\ InitApi
  /\ InitMainIdle

\* a second of wall-clock time passes
Tick ==
  /\ now < MaxTime
  /\ now' = now + 1
  /\ UNCHANGED <<disk, apiVars, mainVars>>

\* let mut package = Package::new();
New(r) ==
  /\ status[r] = "none"
  /\ status' = [status EXCEPT ![r] = "building"]
  /\ builder' = [builder EXCEPT ![r] = <<Package_new(now)>>]
  /\ UNCHANGED <<now, disk, calls, sealed, mainVars>>

\* package.add_module_from_path(path)
AddModule(r, path) ==
  /\ status[r] = "building"
  /\ Len(calls[r]) < MaxCalls
  /\ LET res == add_module_from_path(builder[r][1], path)
     IN  /\ builder' = [builder EXCEPT ![r] = <<res.self>>]
         /\ calls' = [calls EXCEPT
                        ![r] = Append(@, [path |-> path, outcome |-> res.outcome])]
         /\ status' = [status EXCEPT
                        ![r] = IF res.outcome = Panic THEN "panicked" ELSE @]
  /\ UNCHANGED <<now, disk, sealed, mainVars>>

\* package.write(DestPath(r)), which consumes the builder
Write(r, io) ==
  /\ status[r] = "building"
  /\ LET res == Package_write(builder[r][1], disk[DestPath(r)], io)
     IN  /\ disk' = [disk EXCEPT ![DestPath(r)] = res.file]
         /\ builder' = [builder EXCEPT ![r] = <<>>]
         /\ sealed' = [sealed EXCEPT
                         ![r] = <<[outcome |-> res.outcome, value |-> res.value]>>]
         /\ status' = [status EXCEPT
                         ![r] = IF res.outcome = Panic THEN "panicked" ELSE "consumed"]
  /\ UNCHANGED <<now, calls, mainVars>>

Next ==
  \/ Tick
  \/ \E r \in Runs : New(r)
  \/ \E r \in Runs, path \in SamplePaths : AddModule(r, path)
  \/ \E r \in Runs, io \in FsWriteOutcomes : Write(r, io)

Spec == Init /\ [][Next]_vars

\* ------------------------------------------------------------------- main
\* the positional arguments main indexes: args.args[0] and args.args[1]
ArgsUsed == 2

\* drop_workspace with the directory kept (as after TempDir::into_path)
drop_workspace_kept(d) == d

\* TempDir::drop: the directory and the files in it are removed
drop_workspace(d) == [d EXCEPT ![package_path] = <<>>]

\* Leave with the failure swallowed: main carries on to the Requestor
Leave_swallowed(result) ==
  /\ pc' = "requestor"
  /\ UNCHANGED <<exit, package, workspace>>

\* main returns (or unwinds) with `result`: its locals are dropped, the
\* workspace last
Leave(result) ==
  /\ pc' = "done"
  /\ exit' = <<result>>
  /\ package' = <<>>
  /\ workspace' = FALSE

InitMain ==
  /\ now = 0
  /\ disk = InitDisk
  /\ InitApi
  /\ pc = "tempdir"
  /\ args \in [module : Paths, args : 0..ArgsUsed]
  /\ workspace = FALSE
  /\ package = <<>>
  /\ steps = <<>>
  /\ requestor = <<>>
  /\ exit = <<>>

\* let workspace = tempfile::tempdir()?;
TempDir(created) ==
  /\ pc = "tempdir"
  /\ IF created
       THEN /\ workspace' = TRUE
            /\ pc' = "new"
            /\ UNCHANGED <<package, exit>>
       ELSE Leave(ErrIo)
  /\ UNCHANGED <<now, disk, apiVars, args, steps, requestor>>

\* let mut package = Package::new();
MainNew ==
  /\ pc = "new"
  /\ package' = <<Package_new(now)>>
  /\ pc' = "add"
  /\ UNCHANGED <<now, disk, apiVars, args, workspace, steps, requestor, exit>>

\* package.add_module_from_path(&args.module)?;
MainAdd ==
  /\ pc = "add"
  /\ LET res == add_module_from_path(package[1], args.module)
     IN  /\ steps' = Append(steps, [call |-> "add_module_from_path",
                                     outcome |-> res.outcome])
         /\ IF res.outcome = Ok
              THEN /\ package' = <<res.self>>
                   /\ pc' = "write"
                   /\ UNCHANGED <<disk, workspace, exit>>
              ELSE /\ Leave(res.outcome)
                   /\ disk' = drop_workspace(disk)
  /\ UNCHANGED <<now, apiVars, args, requestor>>

\* package.write(&package_path)?;
MainWrite(io) ==
  /\ pc = "write"
  /\ LET res == Package_write(package[1], disk[package_path], io)
         written == [disk EXCEPT ![package_path] = res.file]
     IN  /\ steps' = Append(steps, [call |-> "write", outcome |-> res.outcome])
         /\ IF res.outcome = Ok
              THEN /\ disk' = written
                   /\ package' = <<>>
                   /\ pc' = "requestor"
                   /\ UNCHANGED <<workspace, exit>>
              ELSE /\ Leave(res.outcome)
                   /\ disk' = drop_workspace(written)
  /\ UNCHANGED <<now, apiVars, args, requestor>>

\* Requestor::new(.., Package::Archive(package_path)) .. .with_tasks(..):
\* the tasks index args.args[0] and args.args[1]
MainRequestor ==
  /\ pc = "requestor"
  /\ requestor' = <<package_path>>
  /\ IF args.args >= ArgsUsed
       THEN /\ pc' = "select"
            /\ UNCHANGED <<disk, workspace, package, exit>>
       ELSE /\ Leave(Panic)
            /\ disk' = drop_workspace(disk)
  /\ UNCHANGED <<now, apiVars, args, steps>>

\* select! { comp_res = requestor => comp_res,
\*           _ = ctrl_c => Err(anyhow!("interrupted: ctrl-c detected!")) }
SelectResults == {Ok, "Err(requestor)", "Err(interrupted)"}

MainSelect(result) ==
  /\ pc = "select"
  /\ Leave(result)
  /\ disk' = drop_workspace(disk)
  /\ UNCHANGED <<now, apiVars, args, steps, requestor>>

NextMain ==
  \/ Tick
  \/ \E created \in BOOLEAN : TempDir(created)
  \/ MainNew
  \/ MainAdd
  \/ \E io \in FsWriteOutcomes : MainWrite(io)
  \/ MainRequestor
  \/ \E result \in SelectResults : MainSelect(result)

SpecMain == InitMain /\ [][NextMain]_vars

\* ------------------------------------------------- reading the state back
\* the successful add_module_from_path calls of run r, in order
OkCalls(r) == SelectSeq(calls[r], LAMBDA c : c.outcome = Ok)

\* the entry name and the bytes of the file a call names
InputOf(c) == [name |-> c.path.last, bytes |-> fs_read(c.path).bytes]

\* the ordered input files of run r
Inputs(r) == [i \in 1..Len(OkCalls(r)) |-> InputOf(OkCalls(r)[i])]

\* run r sealed its archive successfully
Sealed(r) == sealed[r] # <<>> /\ sealed[r][1].outcome = Ok

\* the archive file of run r
ArchiveOf(r) == disk[DestPath(r)][1]

\* main is past a successful package.write
MainSealed == pc \in {"requestor", "select"}

\* the archive file main wrote
MainArchive == disk[package_path][1]

\* the archive entries stored under `name`
EntriesNamed(archive, name) ==
  {i \in 1..Len(archive.local) : archive.local[i].name = name}

\* the text of the last entry of an archive
LastData(archive) == archive.local[Len(archive.local)].data

\* the string that follows the first occurrence of the key `key` in a
\* serialized manifest: key, closing quote, colon, opening quote, text, quote
ManifestField(data, key) ==
  LET k == CHOOSE i \in 1..Len(data) :
             data[i] = key /\ \A j \in 1..(i - 1) : data[j] # key
      from == k + 4
      to == CHOOSE e \in from..Len(data) :
              data[e] = "\"" /\ \A j \in from..(e - 1) : data[j] # "\""
  IN  SubSeq(data, from, to - 1)

\* the positions of the dots of a name
Dots(name) == {i \in 1..Len(name) : name[i] = Dot}

\* a name without its last dot-delimited extension
StripLastExtension(name) ==
  IF Dots(name) = {} THEN name
  ELSE SubSeq(name, 1, (CHOOSE i \in Dots(name) : \A j \in Dots(name) : j <= i) - 1)

\* a name up to its first dot
UpToFirstDot(name) ==
  IF Dots(name) = {} THEN name
  ELSE SubSeq(name, 1, (CHOOSE i \in Dots(name) : \A j \in Dots(name) : i <= j) - 1)

\* a 512-bit digest of a byte buffer
Digest(bytes) == <<"sha3-512", bytes>>

\* ------------------------------------------------------------------ claims

\* C1: sealing a builder on which no module was ever added returns a
\* MissingModule error to the caller and creates no file at the destination.
C1_EmptySealIsMissingModule ==
  \A r \in Runs :
    (sealed[r] # <<>> /\ OkCalls(r) = <<>>) =>
      /\ sealed[r][1].outcome = "Err(MissingModule)"
      /\ disk[DestPath(r)] = <<>>

\* C2: after a successful seal the wasm-path of the manifest names exactly
\* one entry of the archive, and that entry holds the bytes read from the
\* module file.
C2_WasmPathNamesOneEntry ==
  \A r \in Runs :
    Sealed(r) =>
      LET archive == ArchiveOf(r)
          wasm_path == ManifestField(LastData(archive), "wasm-path")
          module == OkCalls(r)[Len(OkCalls(r))]
      IN  /\ Cardinality(EntriesNamed(archive, wasm_path)) = 1
          /\ \A i \in EntriesNamed(archive, wasm_path) :
                archive.local[i].data = fs_read(module.path).bytes

\* C3: the archive main sealed holds exactly one entry named manifest.json,
\* which is the generated manifest and the last entry; no module of the
\* caller is stored under that name, whatever the module file is called.
C3_OneManifestLast ==
  MainSealed =>
    LET archive == MainArchive
        n == Len(archive.local)
    IN  /\ EntriesNamed(archive, ManifestName) = {n}
        /\ ManifestField(archive.local[n].data, "wasm-path") = args.module.last

\* C4: an add whose entry name equals that of an entry already in the
\* builder is rejected with InvalidInput, and leaves the entries and the
\* recorded module name as they were.
C4_DuplicateRejected ==
  \A r \in Runs :
    \A i \in 1..Len(calls[r]) :
      (/\ i = Len(calls[r])
       /\ status[r] = "building"
       /\ fs_read(calls[r][i].path).ok
       /\ \E j \in 1..(i - 1) :
            /\ calls[r][j].outcome = Ok
            /\ calls[r][j].path.last = calls[r][i].path.last)
      => /\ calls[r][i].outcome = "Err(InvalidInput)"
         /\ Len(builder[r][1].zip_writer) = Len(OkCalls(r))
         /\ builder[r][1].module_name = <<OkCalls(r)[Len(OkCalls(r))].path.last>>

\* C5: two runs that add the same files with the same bytes in the same
\* order and seal to two different paths leave byte-identical archives,
\* whenever the builders were created.
C5_Deterministic ==
  \A r1, r2 \in Runs :
    (Sealed(r1) /\ Sealed(r2) /\ Inputs(r1) = Inputs(r2)) =>
      ArchiveOf(r1) = ArchiveOf(r2)

\* C6: a successful seal returns a digest, the hash of the bytes persisted
\* at the destination path.
C6_DigestOfPersistedBytes ==
  \A r \in Runs :
    Sealed(r) =>
      /\ Len(sealed[r][1].value) = 1
      /\ sealed[r][1].value[1] = Digest(ArchiveOf(r))

\* C7: main hands the archive path to the Requestor only after both
\* add_module_from_path and write returned Ok, the archive then being the
\* finalized one; when either step fails main ends with that failure and
\* nothing is handed over.
C7_SubmittedOnlyAfterSuccess ==
  /\ requestor # <<>> =>
       /\ steps = <<[call |-> "add_module_from_path", outcome |-> Ok],
                    [call |-> "write", outcome |-> Ok]>>
       /\ requestor = <<package_path>>
       /\ pc = "select" =>
            /\ disk[package_path] # <<>>
            /\ Len(MainArchive.central) = Len(MainArchive.local)
            /\ EntriesNamed(MainArchive, args.module.last) # {}
  /\ \A i \in 1..Len(steps) :
       steps[i].outcome # Ok =>
         /\ pc = "done"
         /\ exit = <<steps[i].outcome>>
         /\ requestor = <<>>

\* a run of main in which write failed after the file was created
C7_Witness ==
  /\ pc = "done"
  /\ steps = <<[call |-> "add_module_from_path", outcome |-> Ok],
               [call |-> "write", outcome |-> ErrIo]>>
  /\ exit = <<ErrIo>>
  /\ requestor = <<>>

\* C8: the sealed archive is at its path while the workspace is alive, all
\* through the job submission, and is gone once main has left, whether
\* through the requestor completing, failing, or ctrl-c.
C8_FileLivesWithWorkspace ==
  /\ MainSealed =>
       /\ workspace
       /\ disk[package_path] # <<>>
       /\ EntriesNamed(MainArchive, ManifestName) # {}
  /\ pc = "done" => (~workspace /\ disk[package_path] = <<>>)

\* main left through the ctrl-c branch
C8_Witness ==
  /\ pc = "done"
  /\ exit = <<"Err(interrupted)">>
  /\ requestor = <<package_path>>
  /\ disk[package_path] = <<>>

\* C9 as stated: entry-points[0].id is the stored file name without its
\* last dot-delimited extension, and wasm-path is the stored file name.
C9_IdStripsLastExtension ==
  MainSealed =>
    /\ ManifestField(LastData(MainArchive), "id")
         = StripLastExtension(args.module.last)
    /\ ManifestField(LastData(MainArchive), "wasm-path") = args.module.last

\* C9 amended: entry-points[0].id is the stored file name up to its first
\* dot (the whole name when it has no dot), and wasm-path is the stored
\* file name.
C9_IdIsUpToFirstDot ==
  MainSealed =>
    /\ ManifestField(LastData(MainArchive), "id")
         = UpToFirstDot(args.module.last)
    /\ ManifestField(LastData(MainArchive), "wasm-path") = args.module.last

\* the module task.task.wasm was packaged under the id task
C9_Witness ==
  /\ MainSealed
  /\ args.module.last = <<"task", Dot, "task", Dot, "wasm">>
  /\ ManifestField(LastData(MainArchive), "id") = <<"task">>

\* C10: add_module_from_path returns InvalidInput for a path with no file
\* name and an I/O error for a file that cannot be read, and adds no entry
\* in either case.
C10_BadPathIsErrorResult ==
  \A r \in Runs :
    \A i \in 1..Len(calls[r]) :
      /\ file_name(calls[r][i].path) = <<>> =>
           calls[r][i].outcome = "Err(InvalidInput)"
      /\ (file_name(calls[r][i].path) # <<>> /\ calls[r][i].path.dir = NoDir) =>
           calls[r][i].outcome = ErrIo
      /\ (builder[r] # <<>> /\ calls[r][i].outcome # Ok) =>
           Len(builder[r][1].zip_writer) < Len(calls[r])

====
